---- MODULE Spec2Model ----
(***************************************************************************)
(* Conway's Game of Life, src/src/lib.rs: struct GameOfLife(Vec<Vec<bool>>) *)
(* with next_state and its helper count_living_neighbors.                   *)
(*                                                                          *)
(* A board is a sequence of rows, a row a sequence of BOOLEAN.  Row and     *)
(* column numbers are usize values counted from 0 as in the source; TLA+    *)
(* sequences count from 1, so cell (r, c) of board b is b[r + 1][c + 1].    *)
(* Every fallible step of the source (usize subtraction and addition, Vec   *)
(* indexing) yields a result record whose panic field says whether, and     *)
(* why, the step panicked.                                                  *)
(***************************************************************************)
EXTENDS Integers, Sequences, FiniteSets, TLC

VARIABLES
    game,       \* the grid held by the current GameOfLife value
    initial,    \* the grid the first GameOfLife value was constructed from
    prev,       \* the receiver of the last call
    ret         \* what the last call did: operation, arguments, outcome

vars == <<game, initial, prev, ret>>

\* ------------------------------------------------------------------ bounds
\* Generated input boards have at most MaxRows rows, at most MaxCols cells
\* per row and at most MaxCells cells in all.
MaxRows == 3
MaxCols == 3
MaxCells == 6
\* Width of usize in the model (Rust guarantees at least 16 bits).
UsizeBits == 16

USIZE_MAX == 2^UsizeBits - 1

\* ---------------------------------------------------------- result records
NoPanic == "none"
PanicOverflow == "arithmetic overflow"
PanicIndex == "index out of bounds"

Ok(v) == [panic |-> NoPanic, value |-> v]
Panicked(kind) == [panic |-> kind, value |-> 0]

\* usize `a - b`: panics when overflow checks are compiled in (debug
\* profile), wraps modulo 2^UsizeBits otherwise (release profile).
usize_sub(a, b, overflow_checks) ==
    IF a >= b THEN Ok(a - b)
    ELSE IF overflow_checks THEN Panicked(PanicOverflow)
    ELSE Ok((a + USIZE_MAX + 1 - b) % (USIZE_MAX + 1))

\* usize `a + b`, likewise.
usize_add(a, b, overflow_checks) ==
    IF a + b <= USIZE_MAX THEN Ok(a + b)
    ELSE IF overflow_checks THEN Panicked(PanicOverflow)
    ELSE Ok((a + b) % (USIZE_MAX + 1))

saturating_sub(a, b) == IF a >= b THEN a - b ELSE 0

min(a, b) == IF a <= b THEN a ELSE b

\* A panic unwinds: what follows a fallible step runs only if the step
\* returned, and then on the value it returned.
AndThen(r, F(_)) == IF r.panic /= NoPanic THEN r ELSE F(r.value)

\* ------------------------------------------------- count_living_neighbors
\* Mutant of max_row: the row window reaches one row too far down.
max_row_too_far(len_minus_1, row_num, overflow_checks) ==
    AndThen(usize_add(row_num, 2, overflow_checks),
            LAMBDA below : Ok(min(len_minus_1, below)))

\* min(self.current_state().len() - 1, row_num + 1), the subtraction done.
max_row(len_minus_1, row_num, overflow_checks) ==
    AndThen(usize_add(row_num, 1, overflow_checks),
            LAMBDA below : Ok(min(len_minus_1, below)))

\* Mutant of max_col: the column window is not clamped to the neighbour row.
max_col_unclamped(neighbor_row, col_num, overflow_checks) ==
    usize_add(col_num, 1, overflow_checks)

\* min(neighbor_row.len() - 1, col_num + 1)
max_col(neighbor_row, col_num, overflow_checks) ==
    AndThen(usize_sub(Len(neighbor_row), 1, overflow_checks),
            LAMBDA last :
                AndThen(usize_add(col_num, 1, overflow_checks),
                        LAMBDA right : Ok(min(last, right))))

\* Mutant of current_cell: the centre cell is counted as its own neighbour.
current_cell_never(neighbor_row_num, neighbor_col_num, row_num, col_num) ==
    FALSE

\* neighbor_row_num == row_num && neighbor_col_num == col_num
current_cell(neighbor_row_num, neighbor_col_num, row_num, col_num) ==
    neighbor_row_num = row_num /\ neighbor_col_num = col_num

\* The filter closure on one candidate: !current_cell && neighbor_row[c],
\* as 1 or 0.  The index is evaluated only when the candidate is not the
\* centre cell.
neighbor_is_alive(neighbor_row, neighbor_row_num, neighbor_col_num, row_num, col_num) ==
    IF current_cell(neighbor_row_num, neighbor_col_num, row_num, col_num)
    THEN Ok(0)
    ELSE IF neighbor_col_num >= Len(neighbor_row) THEN Panicked(PanicIndex)
    ELSE Ok(IF neighbor_row[neighbor_col_num + 1] THEN 1 ELSE 0)

\* (c..=max_col).filter(..).count() over one neighbour row, left to right;
\* the first panic ends the count.
RECURSIVE count_in_row(_, _, _, _, _, _)
count_in_row(neighbor_row, neighbor_row_num, c, last_col, row_num, col_num) ==
    IF c > last_col THEN Ok(0)
    ELSE AndThen(neighbor_is_alive(neighbor_row, neighbor_row_num, c, row_num, col_num),
                 LAMBDA here :
                     AndThen(count_in_row(neighbor_row, neighbor_row_num, c + 1,
                                          last_col, row_num, col_num),
                             LAMBDA rest : Ok(here + rest)))

\* The flat_map closure on one neighbour row: index the row, compute
\* max_col, count the row's window.
count_neighbor_row(state, neighbor_row_num, min_col, row_num, col_num, overflow_checks) ==
    IF neighbor_row_num >= Len(state) THEN Panicked(PanicIndex)
    ELSE AndThen(max_col(state[neighbor_row_num + 1], col_num, overflow_checks),
                 LAMBDA last_col :
                     count_in_row(state[neighbor_row_num + 1], neighbor_row_num,
                                  min_col, last_col, row_num, col_num))

\* (r..=max_row).flat_map(..).count(), top to bottom.
RECURSIVE count_rows(_, _, _, _, _, _, _)
count_rows(state, r, last_row, min_col, row_num, col_num, overflow_checks) ==
    IF r > last_row THEN Ok(0)
    ELSE AndThen(count_neighbor_row(state, r, min_col, row_num, col_num, overflow_checks),
                 LAMBDA here :
                     AndThen(count_rows(state, r + 1, last_row, min_col,
                                        row_num, col_num, overflow_checks),
                             LAMBDA rest : Ok(here + rest)))

count_living_neighbors(state, row_num, col_num, overflow_checks) ==
    AndThen(usize_sub(Len(state), 1, overflow_checks),
            LAMBDA len_minus_1 :
                AndThen(max_row(len_minus_1, row_num, overflow_checks),
                        LAMBDA last_row :
                            count_rows(state, saturating_sub(row_num, 1), last_row,
                                       saturating_sub(col_num, 1), row_num, col_num,
                                       overflow_checks)))

\* ------------------------------------------------------------- next_state
\* Mutant of is_alive_next: the condition grouped as a && (b || c).
is_alive_next_regrouped(currently_alive, living_neighbor_count) ==
    currently_alive /\ (living_neighbor_count = 2 \/ living_neighbor_count = 3)

\* currently_alive && living_neighbor_count == 2 || living_neighbor_count == 3
is_alive_next(currently_alive, living_neighbor_count) ==
    (currently_alive /\ living_neighbor_count = 2) \/ living_neighbor_count = 3

\* The inner closure: one cell's count and next value.
next_cell(state, row_num, col_num, overflow_checks) ==
    AndThen(count_living_neighbors(state, row_num, col_num, overflow_checks),
            LAMBDA living_neighbor_count :
                Ok(is_alive_next(state[row_num + 1][col_num + 1], living_neighbor_count)))

RECURSIVE keep_alive(_)
keep_alive(cells) ==
    IF cells = <<>> THEN <<>>
    ELSE (IF Head(cells) THEN <<TRUE>> ELSE <<>>) \o keep_alive(Tail(cells))

\* Mutant of collect_row: the cells are filtered instead of mapped.
collect_row_filtered(cells) == keep_alive(cells)

\* .collect() of one row's mapped cells into a Vec<bool>
collect_row(cells) == cells

\* row.iter().enumerate().map(..) from column col_num on, left to right; the
\* first panic unwinds.
RECURSIVE map_cells(_, _, _, _)
map_cells(state, row_num, col_num, overflow_checks) ==
    IF col_num >= Len(state[row_num + 1]) THEN Ok(<<>>)
    ELSE AndThen(next_cell(state, row_num, col_num, overflow_checks),
                 LAMBDA here :
                     AndThen(map_cells(state, row_num, col_num + 1, overflow_checks),
                             LAMBDA rest : Ok(<<here>> \o rest)))

\* self.current_state().iter().enumerate().map(..) from row row_num on, top
\* to bottom, each row collected.
RECURSIVE map_rows(_, _, _)
map_rows(state, row_num, overflow_checks) ==
    IF row_num >= Len(state) THEN Ok(<<>>)
    ELSE AndThen(map_cells(state, row_num, 0, overflow_checks),
                 LAMBDA here :
                     AndThen(map_rows(state, row_num + 1, overflow_checks),
                             LAMBDA rest : Ok(<<collect_row(here)>> \o rest)))

\* GameOfLife(.. .collect())
next_state(state, overflow_checks) ==
    LET rows == map_rows(state, 0, overflow_checks)
    IN  [panic |-> rows.panic, board |-> rows.value]

\* The cells of a board.
Cells(state) ==
    UNION {{<<r, c>> : c \in 0..(Len(state[r + 1]) - 1)} : r \in 0..(Len(state) - 1)}

\* ------------------------------------------------------------------ inputs
\* The row lengths of a board.
Shape(b) == [i \in 1..Len(b) |-> Len(b[i])]

RECURSIVE Sum(_)
Sum(s) == IF s = <<>> THEN 0 ELSE Head(s) + Sum(Tail(s))

RECURSIVE BoardsOfShape(_)
BoardsOfShape(s) ==
    IF s = <<>> THEN {<<>>}
    ELSE {<<row>> \o rest : row \in [1..Head(s) -> BOOLEAN],
                            rest \in BoardsOfShape(Tail(s))}

Shapes ==
    {s \in UNION {[1..k -> 0..MaxCols] : k \in 0..MaxRows} : Sum(s) <= MaxCells}

\* Every board, rectangular or jagged, within the bounds.
BoundedBoards == UNION {BoardsOfShape(s) : s \in Shapes}

\* tests::new_game: a row of characters becomes a row of cells, a cell
\* alive iff its character is not a space.
new_game(initial_state) ==
    [r \in 1..Len(initial_state) |->
        [c \in 1..Len(initial_state[r]) |-> initial_state[r][c] /= " "]]

S == " "
X == "x"

EmptyBoard == new_game(<<>>)
Dead1x1 == new_game(<< <<S>> >>)
Alive1x1 == new_game(<< <<X>> >>)
Block2x2 == new_game(<< <<X, X>>,
                        <<X, X>> >>)
Block4x4 == new_game(<< <<S, S, S, S>>,
                        <<S, X, X, S>>,
                        <<S, X, X, S>>,
                        <<S, S, S, S>> >>)
Beehive == new_game(<< <<S, S, S, S, S, S>>,
                       <<S, S, X, X, S, S>>,
                       <<S, X, S, S, X, S>>,
                       <<S, S, X, X, S, S>>,
                       <<S, S, S, S, S, S>> >>)
Tub == new_game(<< <<S, S, S, S, S>>,
                   <<S, S, X, S, S>>,
                   <<S, X, S, X, S>>,
                   <<S, S, X, S, S>>,
                   <<S, S, S, S, S>> >>)
BlinkerVertical == new_game(<< <<S, S, S, S, S>>,
                               <<S, S, X, S, S>>,
                               <<S, S, X, S, S>>,
                               <<S, S, X, S, S>>,
                               <<S, S, S, S, S>> >>)
BlinkerHorizontal == new_game(<< <<S, S, S, S, S>>,
                                 <<S, S, S, S, S>>,
                                 <<S, X, X, X, S>>,
                                 <<S, S, S, S, S>>,
                                 <<S, S, S, S, S>> >>)
BeaconOn == new_game(<< <<S, S, S, S, S, S>>,
                        <<S, X, X, S, S, S>>,
                        <<S, X, X, S, S, S>>,
                        <<S, S, S, X, X, S>>,
                        <<S, S, S, X, X, S>> >>)
BeaconOff == new_game(<< <<S, S, S, S, S, S>>,
                         <<S, X, X, S, S, S>>,
                         <<S, X, S, S, S, S>>,
                         <<S, S, S, S, X, S>>,
                         <<S, S, S, X, X, S>> >>)

StillLifes == {Block2x2, Block4x4, Beehive, Tub}
Oscillators == {BlinkerVertical, BlinkerHorizontal, BeaconOn, BeaconOff}
TestBoards ==
    {EmptyBoard, Dead1x1, Alive1x1} \cup StillLifes \cup Oscillators

InputBoards == BoundedBoards \cup TestBoards

\* ---------------------------------------------------------- state machine
Constructed ==
    [op |-> "new", panic |-> NoPanic, row |-> 0, col |-> 0, value |-> 0]

\* GameOfLife(grid): the value is constructed from any grid.
Init ==
    /\ game \in InputBoards
    /\ initial = game
    /\ prev = game
    /\ ret = Constructed

\* game = game.next_state(): on a panic the call unwinds, nothing is
\* assigned and the run is over.
NextState ==
    /\ ret.panic = NoPanic
    /\ \E overflow_checks \in BOOLEAN :
          LET r == next_state(game, overflow_checks)
          IN  /\ game' = IF r.panic = NoPanic THEN r.board ELSE game
              /\ ret' = [op |-> "next_state", panic |-> r.panic,
                         row |-> 0, col |-> 0, value |-> 0]
    /\ prev' = game
    /\ UNCHANGED initial

\* A direct call game.count_living_neighbors(row_num, col_num) on the
\* constructed value; nothing restricts the arguments to cells of the board.
\* The function is pure, so one call per run shows all it can do.
CountLivingNeighbors(row_num, col_num) ==
    /\ ret.op = "new"
    /\ \E overflow_checks \in BOOLEAN :
          LET n == count_living_neighbors(game, row_num, col_num, overflow_checks)
          IN  ret' = [op |-> "count_living_neighbors", panic |-> n.panic,
                      row |-> row_num, col |-> col_num, value |-> n.value]
    /\ prev' = game
    /\ UNCHANGED <<game, initial>>

Count == \E row_num \in 0..MaxRows, col_num \in 0..MaxCols :
            CountLivingNeighbors(row_num, col_num)

\* Successive generations.
Next == NextState

Spec == Init /\ [][Next]_vars

\* One direct neighbour count on a constructed board.
NextCount == Count

SpecCount == Init /\ [][NextCount]_vars

\* ------------------------------------------------- vocabulary of the claims
Returned == ret.op = "next_state" /\ ret.panic = NoPanic
Counted == ret.op = "count_living_neighbors"

Alive(b, r, c) == b[r + 1][c + 1]

IsRectangular(b) == \A i, j \in 1..Len(b) : Len(b[i]) = Len(b[j])

AllDead(b) == \A p \in Cells(b) : ~Alive(b, p[1], p[2])

\* The alive cells among the up to 8 positions adjacent to (row, col) that
\* lie inside the board.
MooreCount(b, row, col) ==
    Cardinality({d \in ((-1)..1) \X ((-1)..1) :
        /\ d /= <<0, 0>>
        /\ <<row + d[1], col + d[2]>> \in Cells(b)
        /\ Alive(b, row + d[1], col + d[2])})

max(a, b) == IF a >= b THEN a ELSE b

\* The alive cells other than (row, col) in the window of section 4.2, the
\* column bound taken from each neighbour row's own length.
WindowCount(b, row, col) ==
    Cardinality(UNION {
        {<<r, c>> : c \in {k \in max(col - 1, 0)..min(Len(b[r + 1]) - 1, col + 1) :
                              <<r, k>> /= <<row, col>> /\ Alive(b, r, k)}}
        : r \in max(row - 1, 0)..min(Len(b) - 1, row + 1)})

\* Some row with cells has an empty row right before or right after it.
EmptyRowBesideCells(b) ==
    \E i \in 1..(Len(b) - 1) : (Len(b[i]) = 0) /= (Len(b[i + 1]) = 0)

Near(p, row, col) ==
    /\ p[1] - row \in (-1)..1
    /\ p[2] - col \in (-1)..1

FarCells(b, row, col) == {p \in Cells(b) : ~Near(p, row, col)}

\* Board b with its cells far from (row, col) set as f says.
WithFarCells(b, f) ==
    [r \in 1..Len(b) |->
        [c \in 1..Len(b[r]) |->
            IF <<r - 1, c - 1>> \in DOMAIN f THEN f[<<r - 1, c - 1>>] ELSE b[r][c]]]

\* Every board of b's shape that agrees with b on (row, col) and on the
\* cells adjacent to it.
AgreeingBoards(b, row, col) ==
    {WithFarCells(b, f) : f \in [FarCells(b, row, col) -> BOOLEAN]}

Partner(b) ==
    CASE b = BlinkerVertical -> BlinkerHorizontal
      [] b = BlinkerHorizontal -> BlinkerVertical
      [] b = BeaconOn -> BeaconOff
      [] b = BeaconOff -> BeaconOn
      [] OTHER -> b

\* ------------------------------------------------------------------ claims
\* C1: next_state never fails: on every board, the zero-row board, boards
\* with zero-length rows and jagged boards included, the call returns a
\* board, with no underflow and no out-of-bounds index.
C1_NextStateNeverFails ==
    ret.op = "next_state" => ret.panic = NoPanic

\* C2: on every rectangular board next_state returns, and every cell of the
\* result is alive iff (the input cell is alive and n = 2) or n = 3, n the
\* number of alive cells among the adjacent positions inside the board.
C2_RectangularRule ==
    (ret.op = "next_state" /\ IsRectangular(prev)) =>
        /\ ret.panic = NoPanic
        /\ Shape(game) = Shape(prev)
        /\ \A p \in Cells(prev) :
              LET n == MooreCount(prev, p[1], p[2])
              IN  Alive(game, p[1], p[2]) <=>
                    ((Alive(prev, p[1], p[2]) /\ n = 2) \/ n = 3)

\* C2 witness: a rectangular board on which a dead cell with exactly 3 live
\* neighbours was born and a live cell with more than 3 died.
C2_Witness ==
    /\ Returned
    /\ IsRectangular(prev)
    /\ \E p \in Cells(prev) :
          /\ ~Alive(prev, p[1], p[2])
          /\ MooreCount(prev, p[1], p[2]) = 3
          /\ Alive(game, p[1], p[2])
    /\ \E p \in Cells(prev) :
          /\ Alive(prev, p[1], p[2])
          /\ MooreCount(prev, p[1], p[2]) > 3
          /\ ~Alive(game, p[1], p[2])

\* C3: on every board, jagged ones included, count_living_neighbors of an
\* existing cell returns the number of alive cells other than the cell in
\* its window, a neighbour row too short to reach the window counting 0.
C3_WindowCount ==
    (Counted /\ <<ret.row, ret.col>> \in Cells(prev)) =>
        /\ ret.panic = NoPanic
        /\ ret.value = WindowCount(prev, ret.row, ret.col)

\* C4: the board keeps the shape of the initial board through any number of
\* next_state calls, and each returned board has the shape of its receiver.
C4_ShapePreserved ==
    /\ Shape(game) = Shape(initial)
    /\ Returned => Shape(game) = Shape(prev)

\* C4 witness: next_state returned a changed board of a jagged shape.
C4_Witness ==
    /\ Returned
    /\ ~IsRectangular(prev)
    /\ game /= prev

\* C5: every all-dead board, of any shape, is a fixed point of next_state.
C5_AllDeadFixedPoint ==
    (ret.op = "next_state" /\ AllDead(prev)) =>
        /\ ret.panic = NoPanic
        /\ game = prev

\* C6: from a still life (the bare and the padded block, the beehive, the
\* tub) every next_state call returns the starting board.
C6_StillLifes ==
    initial \in StillLifes =>
        /\ ret.panic = NoPanic
        /\ game = initial

\* C6 witness: next_state was applied to the beehive.
C6_Witness ==
    /\ initial = Beehive
    /\ Returned

\* C7: from a blinker or a beacon the generations alternate strictly
\* between the board and its partner; two applications give the board back.
C7_Oscillators ==
    initial \in Oscillators =>
        /\ ret.panic = NoPanic
        /\ game \in {initial, Partner(initial)}
        /\ Partner(game) /= game
        /\ Returned => (game = Partner(prev) /\ prev = Partner(game))
        /\ \A oc \in BOOLEAN :
              next_state(next_state(game, oc).board, oc).board = game

\* C7 witness: the beacon is back 'on' after next_state calls.
C7_Witness ==
    /\ initial = BeaconOn
    /\ Returned
    /\ prev = BeaconOff
    /\ game = BeaconOn

\* C8: a cell of the result is the same for every board of the same shape
\* that agrees with the receiver on the cell and the cells adjacent to it.
C8_Locality ==
    (Returned /\ Shape(prev) \in Shapes) =>
        \A p \in Cells(prev) :
            \A other \in AgreeingBoards(prev, p[1], p[2]), oc \in BOOLEAN :
                next_cell(other, p[1], p[2], oc) = Ok(Alive(game, p[1], p[2]))

\* C8 witness: the result has an alive cell and the receiver an alive cell
\* two rows away from it.
C8_Witness ==
    /\ Returned
    /\ Shape(prev) \in Shapes
    /\ \E p \in Cells(prev) :
          /\ Alive(game, p[1], p[2])
          /\ \E q \in FarCells(prev, p[1], p[2]) :
                Alive(prev, q[1], q[2]) /\ q[1] = p[1] + 2

\* C9: count_living_neighbors returns 0, without a panic, when the grid has
\* no rows or the target row has no columns.
C9_EmptyCountsZero ==
    (Counted /\ (Len(prev) = 0 \/
                   (ret.row < Len(prev) /\ Len(prev[ret.row + 1]) = 0))) =>
        /\ ret.panic = NoPanic
        /\ ret.value = 0

\* C10: next_state completes without underflow or out-of-bounds index iff
\* no row with cells has an empty row right before or after it.
C10_PanicsExactly ==
    ret.op = "next_state" =>
        (ret.panic = NoPanic <=> ~EmptyRowBesideCells(prev))

\* C10 witness: next_state returned on a jagged board where a row of one
\* cell follows a row of three, so the window of cell (., 2) is empty there.
C10_Witness ==
    /\ Returned
    /\ \E i \in 1..(Len(prev) - 1) : Len(prev[i]) = 3 /\ Len(prev[i + 1]) = 1
====
